---- MODULE Spec2Model ----
(***************************************************************************)
(* A model of the metrics registry of rust-prometheus (src/registry.rs):  *)
(* RegistryCore (register, unregister, gather), the Registry handle that  *)
(* guards the core with a reader/writer lock, and the per-family check of  *)
(* the encoders (src/encoder/mod.rs).                                     *)
(*                                                                         *)
(* Strings that the code orders (family names, label values) are          *)
(* sequences of character codes, compared as Rust compares str: byte by   *)
(* byte, a proper prefix first.  Descriptor ids are u64 in the code; the  *)
(* model keeps the wrap-around at 2^IdBits.                                *)
(***************************************************************************)
EXTENDS Integers, Sequences, FiniteSets, TLC

\* Width of a descriptor id / collector id (u64 in the code, scaled down).
IdBits == 3

\* Number of threads sharing one Registry handle in the concurrent model.
NThreads == 2

IdMod == 2 ^ IdBits

-----------------------------------------------------------------------------
(* Ordering of strings and of integers, as core::cmp::Ord gives it.         *)

Min(a, b) == IF a < b THEN a ELSE b

IntCmp(a, b) == IF a < b THEN "Less" ELSE IF a > b THEN "Greater" ELSE "Equal"

RECURSIVE StrCmpFrom(_, _, _)
StrCmpFrom(s, t, i) ==
    IF i > Len(s) \/ i > Len(t) THEN IntCmp(Len(s), Len(t))
    ELSE IF s[i] # t[i] THEN IntCmp(s[i], t[i])
    ELSE StrCmpFrom(s, t, i + 1)

StrCmp(s, t) == StrCmpFrom(s, t, 1)

-----------------------------------------------------------------------------
(* Descriptors, metrics and collectors: the inputs of the registry.         *)

Label(n, v) == [name |-> n, value |-> v]

Metric(lbls, hasTs, ts, v) ==
    [label |-> lbls, has_timestamp_ms |-> hasTs, timestamp_ms |-> ts, value |-> v]

Family(n, ms) == [name |-> n, help |-> "help", type |-> "COUNTER", metric |-> ms]

Desc(i, n, h) == [id |-> i, fq_name |-> n, dim_hash |-> h]

\* get_timestamp_ms of the generated protobuf message: the timestamp, and for
\* a metric without one the value the comparator's comment gives it ("now",
\* later than every recorded timestamp).
TimestampNow == 9

GetTimestampMs(m) == IF m.has_timestamp_ms THEN m.timestamp_ms ELSE TimestampNow

D1   == Desc(1, <<2>>, 1)
D2   == Desc(2, <<1, 3>>, 2)
\* the name of D1 with other label names: another dim_hash
D1x  == Desc(4, <<2>>, 7)
\* the name and shape of D1 with other const label values: another id
D1b  == Desc(5, <<2>>, 1)
\* the largest id: a sum with it wraps around
DBig == Desc(IdMod - 1, <<2, 1>>, 4)

\* What the instrument behind a descriptor reports on collect().
FamOf(d) ==
    CASE d = D1 ->
           Family(d.fq_name,
                  << Metric(<< Label("l", <<2, 1>>) >>, FALSE, 0, 1),
                     Metric(<< Label("l", <<1>>) >>, FALSE, 0, 2) >>)
      [] d = D1b ->
           Family(d.fq_name,
                  << Metric(<< Label("l", <<2, 1>>) >>, FALSE, 0, 3),
                     Metric(<< Label("l", <<1>>) >>, TRUE, 5, 4),
                     Metric(<< Label("l", <<1>>) >>, TRUE, 2, 5) >>)
      [] d = D1x ->
           Family(d.fq_name,
                  << Metric(<< Label("k", <<1>>), Label("l", <<1>>) >>, FALSE, 0, 6) >>)
      [] d = D2 ->
           Family(d.fq_name,
                  << Metric(<< Label("a", <<1>>), Label("b", <<3>>) >>, FALSE, 0, 7),
                     Metric(<< Label("a", <<3>>) >>, FALSE, 0, 8),
                     Metric(<< Label("z", <<1>>), Label("a", <<2>>) >>, FALSE, 0, 9) >>)
      [] OTHER ->
           Family(d.fq_name, << Metric(<< Label("l", <<1>>) >>, FALSE, 0, 11) >>)

\* A collector is known by the descriptors desc() returns, in order; what
\* collect() returns are the families of its instruments, in that order (as
\* MultipleCollector of the tests).
Collector(ds) == [descs |-> ds]

Collect(c) == [i \in 1..Len(c.descs) |-> FamOf(c.descs[i])]

\* The collectors offered to the registry.  The ids of <<DBig, D2>> add up,
\* with wrap-around, to the id of D1.
Collectors ==
    { Collector(<< >>),
      Collector(<<D1>>), Collector(<<D2>>),
      Collector(<<D1b>>), Collector(<<D1x>>),
      Collector(<<D2, D2>>),
      Collector(<<D1x, D1>>),
      Collector(<<DBig, D2>>) }

DescIds(c) == { c.descs[i].id : i \in 1..Len(c.descs) }

-----------------------------------------------------------------------------
(* Maps (HashMap, BTreeMap) as functions.                                   *)

EmptyMap == << >>

Put(m, k, v) == [x \in DOMAIN m \cup {k} |-> IF x = k THEN v ELSE m[x]]

Remove(m, k) == [x \in DOMAIN m \ {k} |-> m[x]]

-----------------------------------------------------------------------------
(* RegistryCore                                                             *)

RegistryCore(cs, dims, ids) ==
    [colloctors_by_id |-> cs, dim_hashes_by_name |-> dims, desc_ids |-> ids]

\* Registry::default: three empty collections.
NewCore == RegistryCore(EmptyMap, EmptyMap, {})

\* u64::saturating_add in the place of wrapping_add.
SaturatingAdd(a, b) == Min(a + b, IdMod - 1)

WrappingAdd(a, b) == (a + b) % IdMod

\* registry.rs:40  self.desc_ids.contains(&desc.id)
DescIdExists(core, desc) == desc.id \in core.desc_ids

\* DimHashDiffers with the comparison left out: a recorded name always passes.
DimHashUnchecked(core, desc) == FALSE

\* DimHashDiffers that holds a recorded hash against the descriptor only
\* while a collector with that name is registered.
DimHashDiffersWhileRegistered(core, desc) ==
    /\ desc.fq_name \in DOMAIN core.dim_hashes_by_name
    /\ core.dim_hashes_by_name[desc.fq_name] # desc.dim_hash
    /\ \E x \in DOMAIN core.colloctors_by_id :
          \E i \in 1..Len(core.colloctors_by_id[x].descs) :
              core.colloctors_by_id[x].descs[i].fq_name = desc.fq_name

\* registry.rs:48-49  a hash is recorded for the name and differs
DimHashDiffers(core, desc) ==
    /\ desc.fq_name \in DOMAIN core.dim_hashes_by_name
    /\ core.dim_hashes_by_name[desc.fq_name] # desc.dim_hash

\* registry.rs:60-61  self.dim_hashes_by_name.insert(fq_name, dim_hash)
InsertDimHash(core, desc) ==
    [core EXCEPT !.dim_hashes_by_name = Put(@, desc.fq_name, desc.dim_hash)]

\* The for loop of register from descriptor i on.  st is the loop state:
\* the core (the loop writes dim_hashes_by_name as it goes), desc_id_set,
\* collector_id and err ("none" while no check has failed).
RECURSIVE RegisterLoop(_, _, _)
RegisterLoop(st, descs, i) ==
    IF i > Len(descs) THEN st
    ELSE LET desc == descs[i] IN
         IF DescIdExists(st.core, desc)
         THEN [st EXCEPT !.err = "MsgDescExists"]
         ELSE IF DimHashDiffers(st.core, desc)
         THEN [st EXCEPT !.err = "MsgInconsistentDesc"]
         ELSE LET core1 == InsertDimHash(st.core, desc) IN
              IF desc.id \notin st.desc_id_set
              THEN RegisterLoop([st EXCEPT !.core = core1,
                                           !.desc_id_set = @ \cup {desc.id},
                                           !.collector_id = WrappingAdd(@, desc.id)],
                                descs, i + 1)
              ELSE [st EXCEPT !.core = core1, !.err = "MsgDuplicateInCollector"]

\* registry.rs:80-87  the match on colloctors_by_id.entry(collector_id)
RegisterEntry(st, c) ==
    IF st.collector_id \notin DOMAIN st.core.colloctors_by_id
    THEN [core |-> [st.core EXCEPT
                       !.desc_ids = @ \cup st.desc_id_set,
                       !.colloctors_by_id = Put(@, st.collector_id, c)],
          res |-> "Ok"]
    ELSE [core |-> st.core, res |-> "AlreadyReg"]

\* RegistryCore::register: the core after the call and what it returns.
Register(core, c) ==
    LET st == RegisterLoop([core |-> core, desc_id_set |-> {},
                            collector_id |-> 0, err |-> "none"], c.descs, 1)
    IN  IF st.err # "none" THEN [core |-> st.core, res |-> st.err]
        ELSE RegisterEntry(st, c)

\* registry.rs:91-98  the sum of the distinct ids of c, by plain `+=` on u64:
\* an overflowing sum panics in a build with overflow checks and wraps in one
\* without.  Returns the sum and whether the addition overflowed.
RECURSIVE UnregisterSum(_, _, _, _)
UnregisterSum(descs, i, id_set, acc) ==
    IF i > Len(descs) THEN acc
    ELSE IF descs[i].id \in id_set THEN UnregisterSum(descs, i + 1, id_set, acc)
    ELSE UnregisterSum(descs, i + 1, id_set \cup {descs[i].id},
                       [collector_id |-> (acc.collector_id + descs[i].id) % IdMod,
                        overflow |-> acc.overflow
                                       \/ acc.collector_id + descs[i].id >= IdMod])

UnregisterId(c) ==
    UnregisterSum(c.descs, 1, {}, [collector_id |-> 0, overflow |-> FALSE])

\* RemoveCollector that also forgets the descriptor ids of the collector.
RemoveCollectorAndIds(core, collector_id) ==
    [core EXCEPT !.colloctors_by_id = Remove(@, collector_id),
                 !.desc_ids = @ \ DescIds(core.colloctors_by_id[collector_id])]

\* RemoveCollector that also forgets the dim hashes of the collector's names.
RemoveCollectorAndNames(core, collector_id) ==
    LET descs == core.colloctors_by_id[collector_id].descs
        names == { descs[i].fq_name : i \in 1..Len(descs) }
    IN  [core EXCEPT !.colloctors_by_id = Remove(@, collector_id),
                     !.dim_hashes_by_name =
                         [n \in DOMAIN @ \ names |-> @[n]]]

\* RemoveCollector that looks the entry up and leaves it in the map.
RemoveNothing(core, collector_id) == core

\* registry.rs:100  self.colloctors_by_id.remove(&collector_id)
RemoveCollector(core, collector_id) ==
    [core EXCEPT !.colloctors_by_id = Remove(@, collector_id)]

\* RegistryCore::unregister: the core after the call and what it returns
\* ("Panic": the thread unwound out of the call at the overflowing addition).
Unregister(core, c, checks) ==
    LET s == UnregisterId(c) IN
    IF s.overflow /\ checks THEN [core |-> core, res |-> "Panic"]
    ELSE IF s.collector_id \notin DOMAIN core.colloctors_by_id
    THEN [core |-> core, res |-> "MsgNotRegistered"]
    ELSE [core |-> RemoveCollector(core, s.collector_id), res |-> "Ok"]

-----------------------------------------------------------------------------
(* RegistryCore::gather                                                     *)

\* GatherInsert that puts the family in the place of one with its name.
GatherInsertReplace(mf_by_name, mf) ==
    [n \in DOMAIN mf_by_name \cup {mf.name} |->
        IF n = mf.name THEN mf ELSE mf_by_name[n]]

\* registry.rs:117-133  one collected family into the BTreeMap
GatherInsert(mf_by_name, mf) ==
    IF mf.name \notin DOMAIN mf_by_name
    THEN Put(mf_by_name, mf.name, mf)
    ELSE [mf_by_name EXCEPT ![mf.name].metric = @ \o mf.metric]

\* registry.rs:115-134  the families of one collector, in the order collected
RECURSIVE GatherFamilies(_, _, _)
GatherFamilies(mf_by_name, mfs, i) ==
    IF i > Len(mfs) THEN mf_by_name
    ELSE GatherFamilies(GatherInsert(mf_by_name, mfs[i]), mfs, i + 1)

GatherCollect(mf_by_name, c) == GatherFamilies(mf_by_name, Collect(c), 1)

\* registry.rs:156-160  the first pair of labels whose values differ decides
RECURSIVE LabelValuesCmp(_, _, _)
LabelValuesCmp(lps1, lps2, i) ==
    IF i > Min(Len(lps1), Len(lps2)) THEN "Equal"
    ELSE IF lps1[i].value # lps2[i].value
    THEN StrCmp(lps1[i].value, lps2[i].value)
    ELSE LabelValuesCmp(lps1, lps2, i + 1)

\* MetricCmp without the comparison of the numbers of labels.
MetricCmpNoCount(m1, m2) ==
    LET byValue == LabelValuesCmp(m1.label, m2.label, 1) IN
    IF byValue # "Equal" THEN byValue
    ELSE IntCmp(GetTimestampMs(m1), GetTimestampMs(m2))

\* MetricCmp without the comparison of the timestamps.
MetricCmpNoTimestamp(m1, m2) ==
    IF Len(m1.label) # Len(m2.label) THEN IntCmp(Len(m1.label), Len(m2.label))
    ELSE LabelValuesCmp(m1.label, m2.label, 1)

\* registry.rs:142-169  the closure given to sort_by
MetricCmp(m1, m2) ==
    LET lps1 == m1.label
        lps2 == m2.label
    IN  IF Len(lps1) # Len(lps2) THEN IntCmp(Len(lps1), Len(lps2))
        ELSE LET byValue == LabelValuesCmp(lps1, lps2, 1) IN
             IF byValue # "Equal" THEN byValue
             ELSE IntCmp(GetTimestampMs(m1), GetTimestampMs(m2))

\* slice::sort_by is a stable sort: equal elements keep their order.  Insert x
\* behind every element of the sorted ms that is not greater than x.
RECURSIVE SortedInsert(_, _, _)
SortedInsert(ms, x, i) ==
    IF i > Len(ms) THEN Append(ms, x)
    ELSE IF MetricCmp(ms[i], x) = "Greater"
    THEN SubSeq(ms, 1, i - 1) \o <<x>> \o SubSeq(ms, i, Len(ms))
    ELSE SortedInsert(ms, x, i + 1)

RECURSIVE SortFrom(_, _, _)
SortFrom(sorted, ms, i) ==
    IF i > Len(ms) THEN sorted
    ELSE SortFrom(SortedInsert(sorted, ms[i], 1), ms, i + 1)

\* registry.rs:142  mf.mut_metric().sort_by(..)
SortMetrics(ms) == SortFrom(<< >>, ms, 1)

\* registry.rs:141-170  every family of the map gets its metrics sorted
SortFamilies(mf_by_name) ==
    [n \in DOMAIN mf_by_name |->
        [mf_by_name[n] EXCEPT !.metric = SortMetrics(@)]]

\* BTreeKeys with the keys ordered by length before content.
RECURSIVE KeysShortestFirst(_)
KeysShortestFirst(keys) ==
    IF keys = {} THEN << >>
    ELSE LET least == CHOOSE k \in keys :
                         \A o \in keys :
                            \/ Len(k) < Len(o)
                            \/ Len(k) = Len(o) /\ StrCmp(k, o) # "Greater"
         IN  <<least>> \o KeysShortestFirst(keys \ {least})

\* The keys of a BTreeMap in the order its iterator yields them: ascending.
RECURSIVE BTreeKeys(_)
BTreeKeys(keys) ==
    IF keys = {} THEN << >>
    ELSE LET least == CHOOSE k \in keys :
                         \A o \in keys : StrCmp(k, o) # "Greater"
         IN  <<least>> \o BTreeKeys(keys \ {least})

\* registry.rs:173-174  the values of the map, in key order
IntoValues(mf_by_name) ==
    LET keys == BTreeKeys(DOMAIN mf_by_name)
    IN  [i \in 1..Len(keys) |-> mf_by_name[keys[i]]]

\* registry.rs:114-135  collect every collector, in the order `order` in which
\* HashMap::values yields them
RECURSIVE GatherLoop(_, _, _, _)
GatherLoop(mf_by_name, core, order, i) ==
    IF i > Len(order) THEN mf_by_name
    ELSE GatherLoop(GatherCollect(mf_by_name, core.colloctors_by_id[order[i]]),
                    core, order, i + 1)

\* RegistryCore::gather, for one iteration order of colloctors_by_id.
Gather(core, order) ==
    IntoValues(SortFamilies(GatherLoop(EmptyMap, core, order, 1)))

\* The orders in which a HashMap with these keys may yield its entries.
RECURSIVE Orders(_)
Orders(keys) ==
    IF keys = {} THEN { << >> }
    ELSE UNION { { <<k>> \o o : o \in Orders(keys \ {k}) } : k \in keys }

-----------------------------------------------------------------------------
(* The encoders (encoder/mod.rs).                                            *)

\* Number of families in a list handed to encode, and the length of the sink
\* beyond which no further encode is made.
MaxFamilies == 2
MaxSink == 3

\* check_metric_family without the check of the metrics.
CheckNameOnly(mf) == IF mf.name = << >> THEN "MsgNoName" ELSE "Ok"

\* check_metric_family
CheckMetricFamily(mf) ==
    IF mf.metric = << >> THEN "MsgNoMetrics"
    ELSE IF mf.name = << >> THEN "MsgNoName"
    ELSE "Ok"

\* The two implementations of Encoder, by their format_type.
Encoders == {"text", "protobuf"}

\* What an encoder emits for one family: the text format a HELP line, a TYPE
\* line and a line per metric, the protobuf format one delimited message.
EncodeFamily(format, mf) ==
    IF format = "text"
    THEN << [line |-> "HELP", name |-> mf.name, text |-> mf.help],
            [line |-> "TYPE", name |-> mf.name, text |-> mf.type] >>
         \o [i \in 1..Len(mf.metric) |->
                [line |-> "SAMPLE", name |-> mf.name, text |-> mf.metric[i]]]
    ELSE << [delimited |-> mf] >>

\* encode, family by family: each family is checked before anything of it is
\* emitted, and what was emitted reaches the writer only when no check failed.
RECURSIVE EncodeLoop(_, _, _, _)
EncodeLoop(format, mfs, i, buf) ==
    IF i > Len(mfs) THEN [res |-> "Ok", buf |-> buf]
    ELSE LET chk == CheckMetricFamily(mfs[i]) IN
         IF chk # "Ok" THEN [res |-> chk, buf |-> << >>]
         ELSE EncodeLoop(format, mfs, i + 1, buf \o EncodeFamily(format, mfs[i]))

\* Encoder::encode on a writer that holds w
Encode(format, mfs, w) ==
    LET r == EncodeLoop(format, mfs, 1, << >>) IN
    [res |-> r.res, writer |-> w \o r.buf]

-----------------------------------------------------------------------------
(* Spec: the registry driven by one caller.  A call of Registry::register,  *)
(* Registry::unregister or Registry::gather takes the lock, runs the core   *)
(* method and releases the lock, in one step.                               *)
(* ConcSpec (below): the same calls made by several threads, a step for the *)
(* taking of the lock, for each part of the call and for the release.       *)

VARIABLES
    core,             \* the RegistryCore behind the lock
    overflow_checks,  \* whether the build panics on an overflowing `+=`
    last,             \* the last call: its argument and what it returned
    accepted,         \* history: the descriptor ids of the collectors that a
                      \* register accepted
    gone,             \* history: the collectors c for which unregister(c)
                      \* succeeded, with no call of register since
    lock,             \* the RwLock around the core: a writer, a count of readers
    th,               \* the threads that share the Registry: where each is in
                      \* its call, and the locals of the call
    sink,             \* the writer handed to Encoder::encode: what was written
    once              \* the lazy_static cell of DEFAULT_REGISTRY

vars == <<core, overflow_checks, last, accepted, gone, lock, th, sink, once>>

Threads == 1..NThreads

\* RwLock::new: no writer, no reader.
NewLock == [writer |-> FALSE, readers |-> 0]

\* The cell of a lazy_static before the first dereference.
NewOnce == [state |-> "incomplete", runs |-> 0]

\* A thread outside every call.
Idle ==
    [pc |-> "idle", op |-> "none", c |-> Collector(<< >>), desc_id_set |-> {}, collector_id |-> 0,
     res |-> "none", order |-> << >>, i |-> 0, mf_by_name |-> EmptyMap,
     seen |-> EmptyMap, out |-> << >>]

Call(op, c, res, out) == [op |-> op, c |-> c, res |-> res, out |-> out]

Init ==
    /\ core = NewCore
    /\ overflow_checks \in BOOLEAN
    /\ accepted = {}
    /\ gone = {}
    /\ last = Call("new", Collector(<< >>), "Ok", << >>)
    /\ lock = NewLock
    /\ th = [t \in Threads |-> Idle]
    /\ sink = << >>
    /\ once = NewOnce

\* Registry::register
RegistryRegister(c) ==
    LET r == Register(core, c) IN
    /\ core' = r.core
    /\ last' = Call("register", c, r.res, << >>)
    /\ accepted' = IF r.res = "Ok" THEN accepted \cup DescIds(c) ELSE accepted
    /\ gone' = {}
    /\ UNCHANGED <<overflow_checks, lock, th, sink, once>>

\* Registry::unregister
RegistryUnregister(c) ==
    LET r == Unregister(core, c, overflow_checks) IN
    /\ core' = r.core
    /\ last' = Call("unregister", c, r.res, << >>)
    /\ gone' = IF r.res = "Ok" THEN gone \cup {c} ELSE gone
    /\ UNCHANGED <<overflow_checks, accepted, lock, th, sink, once>>

\* Registry::gather
RegistryGather(order) ==
    /\ last' = Call("gather", Collector(<< >>), "Ok", Gather(core, order))
    /\ UNCHANGED <<core, overflow_checks, accepted, gone, lock, th, sink, once>>

Next ==
    \/ \E c \in Collectors : RegistryRegister(c)
    \/ \E c \in Collectors : RegistryUnregister(c)
    \/ \E order \in Orders(DOMAIN core.colloctors_by_id) : RegistryGather(order)

Spec == Init /\ [][Next]_vars

-----------------------------------------------------------------------------
(* EncSpec: a caller hands lists of families to the encoders, all writing   *)
(* to one writer (as test_bad_metrics does).                                *)

\* The families handed to encode: two that pass check_metric_family, one
\* without a name, one without metrics, one without either.
EncFamilies ==
    { FamOf(D1), FamOf(D1x),
      Family(<< >>, FamOf(D1x).metric),
      Family(<<2>>, << >>),
      Family(<< >>, << >>) }

\* The lists of at most n families.
RECURSIVE FamilyLists(_)
FamilyLists(n) ==
    IF n = 0 THEN { << >> }
    ELSE LET shorter == FamilyLists(n - 1) IN
         shorter \cup { Append(l, f) : l \in { x \in shorter : Len(x) = n - 1 },
                                       f \in EncFamilies }

EncodeCall(format, mfs, res) ==
    [op |-> "encode", format_type |-> format, mfs |-> mfs, res |-> res]

\* Encoder::encode
EncoderEncode(format, mfs) ==
    /\ Len(sink) < MaxSink
    /\ LET r == Encode(format, mfs, sink) IN
       /\ sink' = r.writer
       /\ last' = EncodeCall(format, mfs, r.res)
    /\ UNCHANGED <<core, overflow_checks, accepted, gone, lock, th, once>>

EncNext ==
    \E format \in Encoders : \E mfs \in FamilyLists(MaxFamilies) :
        EncoderEncode(format, mfs)

EncSpec == Init /\ [][EncNext]_vars

-----------------------------------------------------------------------------
(* Properties of register.  In a step the primed `last` names the call that *)
(* was made on the unprimed state.                                          *)

cbi(k) == k.colloctors_by_id

Registered(k) == { cbi(k)[x] : x \in DOMAIN cbi(k) }

\* C1: a register that returns an error leaves colloctors_by_id,
\* dim_hashes_by_name and desc_ids as they were before the call.
C1_FailedRegisterChangesNothing ==
    [][ (last'.op = "register" /\ last'.res # "Ok") => core' = core ]_vars

\* C2: registering a collector with the descriptor set of a registered one
\* returns Error::AlreadyReg and leaves the first registration in place.
C2_ReRegisterIsAlreadyReg ==
    [][ ( /\ last'.op = "register"
          /\ \E r \in Registered(core) : DescIds(r) = DescIds(last'.c) )
        => (last'.res = "AlreadyReg" /\ cbi(core') = cbi(core)) ]_vars

\* The checks of register on descriptor j of a list, read off the state
\* before the call: its id was accepted before, its name has another dim
\* hash (recorded, or given by an earlier descriptor of the list), its id
\* repeats an earlier one of the list.
Known(descs, j) == descs[j].id \in accepted

Clash(k, descs, j) ==
    \/ /\ descs[j].fq_name \in DOMAIN k.dim_hashes_by_name
       /\ k.dim_hashes_by_name[descs[j].fq_name] # descs[j].dim_hash
    \/ \E i \in 1..(j - 1) : /\ descs[i].fq_name = descs[j].fq_name
                             /\ descs[i].dim_hash # descs[j].dim_hash

Repeats(descs, j) == \E i \in 1..(j - 1) : descs[i].id = descs[j].id

NoneFailsBefore(k, descs, j) ==
    \A i \in 1..(j - 1) :
        ~Known(descs, i) /\ ~Clash(k, descs, i) /\ ~Repeats(descs, i)

\* C3 (as stated): register returns the duplicate-descriptor error whenever
\* an id of the collector was accepted by an earlier register.
C3_KnownIdIsDuplicateDescriptor ==
    [][ (last'.op = "register" /\ DescIds(last'.c) \cap accepted # {})
        => last'.res = "MsgDescExists" ]_vars

\* C3 (amended): register fails whenever an id of the collector was accepted
\* by an earlier register, also after that collector was unregistered; the
\* error is the duplicate-descriptor one when no earlier descriptor of the
\* list fails a check.
C3_KnownIdFails ==
    [][ last'.op = "register" =>
          LET descs == last'.c.descs IN
          \A j \in 1..Len(descs) :
              Known(descs, j) =>
                  /\ last'.res # "Ok"
                  /\ cbi(core') = cbi(core)
                  /\ NoneFailsBefore(core, descs, j) => last'.res = "MsgDescExists"
      ]_vars

\* a collector is rejected for an id whose collector is no longer registered
C3_Witness ==
    /\ last.op = "register"
    /\ last.res = "MsgDescExists"
    /\ Cardinality(DescIds(last.c)) = Len(last.c.descs)
    /\ DescIds(last.c) # {}
    /\ DescIds(last.c) \subseteq accepted
    /\ \A r \in Registered(core) : DescIds(r) \cap DescIds(last.c) = {}

\* C4 (as stated): a collector with a descriptor whose name is recorded with
\* another dim hash (its id not in desc_ids) is rejected with the
\* inconsistent-descriptor error, and gather returns what it returned before.
C4_ClashIsInconsistentDescriptor ==
    [][ ( /\ last'.op = "register"
          /\ \E j \in 1..Len(last'.c.descs) :
                /\ Clash(core, <<last'.c.descs[j]>>, 1)
                /\ last'.c.descs[j].id \notin core.desc_ids )
        => /\ last'.res = "MsgInconsistentDesc"
           /\ cbi(core') = cbi(core) ]_vars

\* C4 (amended): such a collector is rejected, colloctors_by_id is unchanged
\* and gather returns what it returned before; the error is the
\* inconsistent-descriptor one when no earlier descriptor of the list fails
\* a check.
C4_ClashFails ==
    [][ last'.op = "register" =>
          LET descs == last'.c.descs IN
          \A j \in 1..Len(descs) :
              ( /\ Clash(core, <<descs[j]>>, 1)
                /\ descs[j].id \notin core.desc_ids )
              => /\ last'.res \notin {"Ok", "AlreadyReg"}
                 /\ cbi(core') = cbi(core)
                 /\ \A order \in Orders(DOMAIN cbi(core)) :
                        Gather(core', order) = Gather(core, order)
                 /\ NoneFailsBefore(core, descs, j)
                        => last'.res = "MsgInconsistentDesc"
      ]_vars

\* a collector is rejected for its shape while another one is registered
C4_Witness ==
    /\ last.op = "register"
    /\ last.res = "MsgInconsistentDesc"
    /\ Len(last.c.descs) = 1
    /\ \E r \in Registered(core) :
          \E i \in 1..Len(r.descs) :
              /\ r.descs[i].fq_name = last.c.descs[1].fq_name
              /\ r.descs[i].dim_hash # last.c.descs[1].dim_hash

-----------------------------------------------------------------------------
(* Properties of unregister.                                                *)

\* The collector id of a set of descriptor ids: their sum as a u64.
RECURSIVE SumOf(_)
SumOf(ids) ==
    IF ids = {} THEN 0
    ELSE LET x == CHOOSE y \in ids : TRUE IN x + SumOf(ids \ {x})

\* C5: unregister returns the not-registered error exactly when the id it
\* computes is no key of colloctors_by_id, and then changes nothing; so it
\* does for a collector that an unregister removed, with no register since.
C5_NotRegistered ==
    [][ (last'.op = "unregister" /\ last'.res # "Panic") =>
          /\ last'.res = "MsgNotRegistered"
                <=> SumOf(DescIds(last'.c)) % IdMod \notin DOMAIN cbi(core)
          /\ last'.res = "MsgNotRegistered" => core' = core
          /\ last'.c \in gone => last'.res = "MsgNotRegistered"
      ]_vars

\* the second unregister of a collector with descriptors, a gather between
C5_Witness ==
    /\ last.op = "unregister"
    /\ last.res = "MsgNotRegistered"
    /\ last.c \in gone
    /\ DescIds(last.c) # {}
    /\ DescIds(last.c) \subseteq accepted

\* C6: a successful unregister(c) removes only a collector whose set of
\* descriptor ids is that of c.
C6_UnregisterRemovesEqualCollector ==
    [][ (last'.op = "unregister" /\ last'.res = "Ok") =>
          \A x \in DOMAIN cbi(core) \ DOMAIN cbi(core') :
              DescIds(cbi(core)[x]) = DescIds(last'.c) ]_vars

\* C7: unregister leaves dim_hashes_by_name and desc_ids alone; when it
\* succeeds it removes exactly one entry of colloctors_by_id, and otherwise
\* it changes nothing.
C7_UnregisterFrame ==
    [][ last'.op = "unregister" =>
          /\ core'.dim_hashes_by_name = core.dim_hashes_by_name
          /\ core'.desc_ids = core.desc_ids
          /\ last'.res = "Ok" =>
                \E x \in DOMAIN cbi(core) :
                    /\ DOMAIN cbi(core') = DOMAIN cbi(core) \ {x}
                    /\ \A y \in DOMAIN cbi(core') : cbi(core')[y] = cbi(core)[y]
          /\ last'.res # "Ok" => cbi(core') = cbi(core)
      ]_vars

\* a collector was removed and its ids and names are still recorded
C7_Witness ==
    /\ last.op = "unregister"
    /\ last.res = "Ok"
    /\ Len(last.c.descs) = 2
    /\ DescIds(last.c) \subseteq core.desc_ids
    /\ \A i \in 1..Len(last.c.descs) :
          last.c.descs[i].fq_name \in DOMAIN core.dim_hashes_by_name
    /\ cbi(core) # EmptyMap

-----------------------------------------------------------------------------
(* Properties of gather.                                                    *)

\* C8: gather returns the families in strictly ascending order of name.
C8_FamiliesAscending ==
    last.op = "gather" =>
        \A i, j \in 1..Len(last.out) :
            i < j => StrCmp(last.out[i].name, last.out[j].name) = "Less"

\* three families, of collectors registered in another order than by name
C8_Witness ==
    /\ last.op = "gather"
    /\ Len(last.out) = 3
    /\ \E x, y \in DOMAIN cbi(core) :
          /\ x < y
          /\ cbi(core)[x].descs # << >>
          /\ cbi(core)[y].descs # << >>
          /\ StrCmp(cbi(core)[x].descs[1].fq_name,
                    cbi(core)[y].descs[1].fq_name) = "Greater"

\* m1 comes before m2 by the claim's order: fewer labels, or as many and the
\* first label value that differs is the smaller one.
RanksBefore(m1, m2) ==
    \/ Len(m1.label) < Len(m2.label)
    \/ /\ Len(m1.label) = Len(m2.label)
       /\ \E k \in 1..Len(m1.label) :
             /\ \A i \in 1..(k - 1) : m1.label[i].value = m2.label[i].value
             /\ StrCmp(m1.label[k].value, m2.label[k].value) = "Less"

\* C9: in every family gather returns, no metric ranks before its
\* predecessor by label count and then label values.
C9_MetricsAscending ==
    last.op = "gather" =>
        \A f \in 1..Len(last.out) :
            \A i \in 1..(Len(last.out[f].metric) - 1) :
                /\ ~RanksBefore(last.out[f].metric[i + 1], last.out[f].metric[i])
                /\ MetricCmp(last.out[f].metric[i + 1], last.out[f].metric[i]) # "Less"

\* a family whose metrics differ in label count and in label values, and
\* one merged from two collectors
C9_Witness ==
    /\ last.op = "gather"
    /\ \E f \in 1..Len(last.out) :
          \E i, j \in 1..Len(last.out[f].metric) :
              /\ Len(last.out[f].metric[i].label) < Len(last.out[f].metric[j].label)
              /\ Len(last.out[f].metric) >= 3
    /\ \E f \in 1..Len(last.out) : Len(last.out[f].metric) = 5

-----------------------------------------------------------------------------
(* ConcSpec: the threads of a program share one Registry (a clone of the    *)
(* handle is the same Arc<RwLock<RegistryCore>>).                           *)

\* The collectors the threads register and unregister.
ConcCollectors == { Collector(<<D1>>), Collector(<<D2>>), Collector(<<DBig, D2>>) }

\* RwLock::write returns once there is no writer and no reader.
CanWrite(l) == ~l.writer /\ l.readers = 0

\* CanRead that does not look at the writer.
CanReadBesideWriter(l) == TRUE

\* CanRead of a lock with one mode: no writer and no other reader.
CanReadAlone(l) == ~l.writer /\ l.readers = 0

\* RwLock::read returns once there is no writer.
CanRead(l) == ~l.writer

\* The write guard is dropped and never released.
WriteGuardLeaked(l) == l

\* Drop of the RwLockWriteGuard: the lock has no writer again.
DropWriteGuard(l) == [l EXCEPT !.writer = FALSE]

\* The read guard is dropped and never released.
ReadGuardLeaked(l) == l

\* Drop of an RwLockReadGuard: one reader less.
DropReadGuard(l) == [l EXCEPT !.readers = @ - 1]

InWrite(t) ==
    th[t].pc \in {"register_loop", "register_entry", "unregister", "unlock_write"}

InRead(t) == th[t].pc \in {"gather_collect", "gather_sort", "unlock_read"}

\* a thread calls Registry::register(c): it goes for the write lock
CallRegister(t, c) ==
    /\ th[t].pc = "idle"
    /\ th' = [th EXCEPT ![t] = [Idle EXCEPT !.pc = "write_register", !.c = c]]
    /\ UNCHANGED <<core, overflow_checks, last, accepted, gone, lock, sink, once>>

\* a thread calls Registry::unregister(c)
CallUnregister(t, c) ==
    /\ th[t].pc = "idle"
    /\ th' = [th EXCEPT ![t] = [Idle EXCEPT !.pc = "write_unregister", !.c = c]]
    /\ UNCHANGED <<core, overflow_checks, last, accepted, gone, lock, sink, once>>

\* a thread calls Registry::gather: it goes for the read lock
CallGather(t) ==
    /\ th[t].pc = "idle"
    /\ th' = [th EXCEPT ![t] = [Idle EXCEPT !.pc = "read_gather"]]
    /\ UNCHANGED <<core, overflow_checks, last, accepted, gone, lock, sink, once>>

\* self.r.write() returns the guard
LockWrite(t) ==
    /\ th[t].pc \in {"write_register", "write_unregister"}
    /\ CanWrite(lock)
    /\ lock' = [lock EXCEPT !.writer = TRUE]
    /\ th' = [th EXCEPT ![t].pc = IF th[t].pc = "write_register"
                                  THEN "register_loop" ELSE "unregister"]
    /\ UNCHANGED <<core, overflow_checks, last, accepted, gone, sink, once>>

\* register, its loop over the descriptors (registry.rs:34-78)
RegisterDescs(t) ==
    /\ th[t].pc = "register_loop"
    /\ LET st == RegisterLoop([core |-> core, desc_id_set |-> {},
                               collector_id |-> 0, err |-> "none"],
                              th[t].c.descs, 1)
       IN  /\ core' = st.core
           /\ th' = [th EXCEPT ![t].desc_id_set = st.desc_id_set,
                               ![t].collector_id = st.collector_id,
                               ![t].res = st.err,
                               ![t].pc = IF st.err = "none" THEN "register_entry"
                                         ELSE "unlock_write"]
    /\ UNCHANGED <<overflow_checks, last, accepted, gone, lock, sink, once>>

\* register, its match on the entry of collector_id (registry.rs:80-87)
RegisterInsert(t) ==
    /\ th[t].pc = "register_entry"
    /\ LET r == RegisterEntry([core |-> core, desc_id_set |-> th[t].desc_id_set,
                               collector_id |-> th[t].collector_id,
                               err |-> "none"], th[t].c)
       IN  /\ core' = r.core
           /\ th' = [th EXCEPT ![t].res = r.res, ![t].pc = "unlock_write"]
    /\ UNCHANGED <<overflow_checks, last, accepted, gone, lock, sink, once>>

\* unregister under the write lock (registry.rs:90-109)
UnregisterCollector(t) ==
    /\ th[t].pc = "unregister"
    /\ LET r == Unregister(core, th[t].c, overflow_checks)
       IN  /\ core' = r.core
           /\ th' = [th EXCEPT ![t].res = r.res, ![t].pc = "unlock_write"]
    /\ UNCHANGED <<overflow_checks, last, accepted, gone, lock, sink, once>>

\* the write guard is dropped, at the return or while a panic unwinds; a
\* thread that panicked makes no further call
UnlockWrite(t) ==
    /\ th[t].pc = "unlock_write"
    /\ lock' = DropWriteGuard(lock)
    /\ th' = [th EXCEPT ![t] = [Idle EXCEPT !.pc = IF th[t].res = "Panic"
                                                   THEN "panicked" ELSE "idle"]]
    /\ UNCHANGED <<core, overflow_checks, last, accepted, gone, sink, once>>

\* self.r.read() returns the guard; gather starts to iterate over
\* colloctors_by_id.values(), which yields the entries in some order.  `seen`
\* keeps the map as it is at this instant.
LockRead(t, order) ==
    /\ th[t].pc = "read_gather"
    /\ CanRead(lock)
    /\ lock' = [lock EXCEPT !.readers = @ + 1]
    /\ th' = [th EXCEPT ![t].pc = "gather_collect", ![t].order = order,
                        ![t].i = 1, ![t].seen = cbi(core)]
    /\ UNCHANGED <<core, overflow_checks, last, accepted, gone, sink, once>>

\* gather collects the next collector (registry.rs:114-135); an entry that
\* is no longer in the map is passed over
GatherNext(t) ==
    /\ th[t].pc = "gather_collect"
    /\ th[t].i <= Len(th[t].order)
    /\ LET k == th[t].order[th[t].i] IN
       th' = [th EXCEPT ![t].i = @ + 1,
                        ![t].mf_by_name =
                            IF k \in DOMAIN cbi(core)
                            THEN GatherCollect(@, cbi(core)[k]) ELSE @]
    /\ UNCHANGED <<core, overflow_checks, last, accepted, gone, lock, sink, once>>

\* gather sorts the metrics and returns the families (registry.rs:141-174)
GatherSort(t) ==
    /\ th[t].pc = "gather_collect"
    /\ th[t].i > Len(th[t].order)
    /\ th' = [th EXCEPT ![t].out = IntoValues(SortFamilies(th[t].mf_by_name)),
                        ![t].mf_by_name = EmptyMap,
                        ![t].pc = "unlock_read"]
    /\ UNCHANGED <<core, overflow_checks, last, accepted, gone, lock, sink, once>>

\* the read guard is dropped
UnlockRead(t) ==
    /\ th[t].pc = "unlock_read"
    /\ lock' = DropReadGuard(lock)
    /\ th' = [th EXCEPT ![t] = Idle]
    /\ UNCHANGED <<core, overflow_checks, last, accepted, gone, sink, once>>

ConcNext ==
    \E t \in Threads :
        \/ \E c \in ConcCollectors : CallRegister(t, c)
        \/ \E c \in ConcCollectors : CallUnregister(t, c)
        \/ CallGather(t)
        \/ LockWrite(t)
        \/ RegisterDescs(t)
        \/ RegisterInsert(t)
        \/ UnregisterCollector(t)
        \/ UnlockWrite(t)
        \/ \E order \in Orders(DOMAIN cbi(core)) : LockRead(t, order)
        \/ GatherNext(t)
        \/ GatherSort(t)
        \/ UnlockRead(t)

ConcSpec == Init /\ [][ConcNext]_vars

\* C10: a gather that runs beside register and unregister calls of other
\* threads is built from the collectors that were in colloctors_by_id at the
\* instant it took the lock, when no register or unregister was under way;
\* no writer holds the lock while a reader or another writer holds it.
C10_GatherSeesOneInstant ==
    /\ \A t \in Threads :
          InRead(t) => /\ cbi(core) = th[t].seen
                       /\ \A u \in Threads : ~InWrite(u)
    /\ \A t \in Threads :
          th[t].pc = "unlock_read" =>
              th[t].out = Gather([core EXCEPT !.colloctors_by_id = th[t].seen],
                                 th[t].order)
    /\ \A t, u \in Threads : (InWrite(t) /\ InWrite(u)) => t = u
    /\ lock.writer <=> \E t \in Threads : InWrite(t)
    /\ lock.readers = Cardinality({ t \in Threads : InRead(t) })

\* a gather has returned two collectors' families while another thread waits
\* for the write lock to unregister one of them
C10_Witness ==
    \E t, u \in Threads :
        /\ th[t].pc = "unlock_read"
        /\ Len(th[t].out) = 2
        /\ th[u].pc = "write_unregister"
        /\ th[u].c \in Registered(core)

-----------------------------------------------------------------------------
(* Progress of the calls on the shared registry.                            *)

\* The call of thread t has not returned.
Pending(t) == th[t].pc \notin {"idle", "panicked"}

\* Thread t can take the next step of its call: it is inside the lock, where
\* no step waits for anything, or the lock it waits for can be taken.
CanStep(t) ==
    \/ InWrite(t)
    \/ InRead(t)
    \/ ENABLED LockWrite(t)
    \/ \E order \in Orders(DOMAIN cbi(core)) : ENABLED LockRead(t, order)

\* C11: in no reachable state of the threads' gather, register and
\* unregister calls is a call pending while no thread can take a step of
\* its call; a thread that cannot step waits for a lock that a thread which
\* can step holds.
C11_NoDeadlock ==
    /\ (\E t \in Threads : Pending(t)) => \E u \in Threads : CanStep(u)
    /\ \A t \in Threads :
          (Pending(t) /\ ~CanStep(t)) =>
              \E u \in Threads : u # t /\ (InWrite(u) \/ InRead(u)) /\ CanStep(u)

\* every thread but one waits for the lock, which the last one holds after
\* its unregister panicked
C11_Witness ==
    \E u \in Threads :
        /\ th[u].pc = "unlock_write"
        /\ th[u].res = "Panic"
        /\ \A t \in Threads \ {u} : Pending(t) /\ ~CanStep(t)

-----------------------------------------------------------------------------
(* Properties of the encoders.                                              *)

-----------------------------------------------------------------------------
(* LazySpec: the threads of a program call the free functions register,     *)
(* unregister and gather, which dereference DEFAULT_REGISTRY.  A step for   *)
(* the dereference, for the initializer and for the call on the registry.   *)

\* The collector of the process metrics and its descriptor.
DProc == Desc(6, <<3>>, 3)
ProcessCollector == Collector(<<DProc>>)

\* The collectors handed to the free functions.
LazyCollectors == { Collector(<<D1>>), Collector(<<D2>>) }

\* A dereference runs the initializer whenever the cell holds no value yet.
OnceMayInitUnlessComplete(state) == state # "complete"

\* A dereference runs the initializer only when no thread has started it.
OnceMayInit(state) == state = "incomplete"

\* register_default_process_collector on a registry with core k: the build
\* has the process collector (process) or the function is Ok(()).
RegisterDefaultProcessCollector(k, process) ==
    IF process THEN Register(k, ProcessCollector) ELSE [core |-> k, res |-> "Ok"]

\* a thread calls the free function register(c)
FreeRegister(t, c) ==
    /\ th[t].pc = "idle"
    /\ th' = [th EXCEPT ![t] = [Idle EXCEPT !.pc = "deref", !.op = "register", !.c = c]]
    /\ UNCHANGED <<core, overflow_checks, last, accepted, gone, lock, sink, once>>

\* a thread calls the free function unregister(c)
FreeUnregister(t, c) ==
    /\ th[t].pc = "idle"
    /\ th' = [th EXCEPT ![t] = [Idle EXCEPT !.pc = "deref", !.op = "unregister", !.c = c]]
    /\ UNCHANGED <<core, overflow_checks, last, accepted, gone, lock, sink, once>>

\* a thread calls the free function gather()
FreeGather(t) ==
    /\ th[t].pc = "idle"
    /\ th' = [th EXCEPT ![t] = [Idle EXCEPT !.pc = "deref", !.op = "gather"]]
    /\ UNCHANGED <<core, overflow_checks, last, accepted, gone, lock, sink, once>>

\* the dereference finds the value
DerefComplete(t) ==
    /\ th[t].pc = "deref"
    /\ once.state = "complete"
    /\ th' = [th EXCEPT ![t].pc = "call"]
    /\ UNCHANGED <<core, overflow_checks, last, accepted, gone, lock, sink, once>>

\* the dereference finds no value and this thread is the one to run the
\* initializer; a thread that finds the initializer running waits
DerefInit(t) ==
    /\ th[t].pc = "deref"
    /\ OnceMayInit(once.state)
    /\ once' = [once EXCEPT !.state = "running"]
    /\ th' = [th EXCEPT ![t].pc = "init"]
    /\ UNCHANGED <<core, overflow_checks, last, accepted, gone, lock, sink>>

\* the initializer: Registry::default(), the process collector, unwrap
InitDefaultRegistry(t, process) ==
    /\ th[t].pc = "init"
    /\ LET r == RegisterDefaultProcessCollector(NewCore, process) IN
       IF r.res = "Ok"
       THEN /\ core' = r.core
            /\ accepted' = IF process THEN DescIds(ProcessCollector) ELSE {}
            /\ once' = [state |-> "complete", runs |-> once.runs + 1]
            /\ th' = [th EXCEPT ![t].pc = "call"]
       ELSE /\ once' = [state |-> "poisoned", runs |-> once.runs + 1]
            /\ th' = [th EXCEPT ![t] = [Idle EXCEPT !.pc = "panicked"]]
            /\ UNCHANGED <<core, accepted>>
    /\ gone' = {}
    /\ UNCHANGED <<overflow_checks, last, lock, sink>>

\* DEFAULT_REGISTRY.register(c)
DefaultRegister(t) ==
    /\ th[t].pc = "call"
    /\ th[t].op = "register"
    /\ LET r == Register(core, th[t].c) IN
       /\ core' = r.core
       /\ last' = Call("register", th[t].c, r.res, << >>)
       /\ accepted' = IF r.res = "Ok" THEN accepted \cup DescIds(th[t].c)
                      ELSE accepted
    /\ gone' = {}
    /\ th' = [th EXCEPT ![t] = Idle]
    /\ UNCHANGED <<overflow_checks, lock, sink, once>>

\* DEFAULT_REGISTRY.unregister(c)
DefaultUnregister(t) ==
    /\ th[t].pc = "call"
    /\ th[t].op = "unregister"
    /\ LET r == Unregister(core, th[t].c, overflow_checks) IN
       /\ core' = r.core
       /\ last' = Call("unregister", th[t].c, r.res, << >>)
       /\ gone' = IF r.res = "Ok" THEN gone \cup {th[t].c} ELSE gone
       /\ th' = [th EXCEPT ![t] = [Idle EXCEPT !.pc = IF r.res = "Panic"
                                                      THEN "panicked" ELSE "idle"]]
    /\ UNCHANGED <<overflow_checks, accepted, lock, sink, once>>

\* DEFAULT_REGISTRY.gather()
DefaultGather(t, order) ==
    /\ th[t].pc = "call"
    /\ th[t].op = "gather"
    /\ last' = Call("gather", Collector(<< >>), "Ok", Gather(core, order))
    /\ th' = [th EXCEPT ![t] = Idle]
    /\ UNCHANGED <<core, overflow_checks, accepted, gone, lock, sink, once>>

LazyNext ==
    \E t \in Threads :
        \/ \E c \in LazyCollectors : FreeRegister(t, c)
        \/ \E c \in LazyCollectors : FreeUnregister(t, c)
        \/ FreeGather(t)
        \/ DerefComplete(t)
        \/ DerefInit(t)
        \/ \E process \in BOOLEAN : InitDefaultRegistry(t, process)
        \/ DefaultRegister(t)
        \/ DefaultUnregister(t)
        \/ \E order \in Orders(DOMAIN cbi(core)) : DefaultGather(t, order)

LazySpec == Init /\ [][LazyNext]_vars

\* C13: however many threads make their first call of the free functions
\* at once, the initializer of DEFAULT_REGISTRY runs one time, no call
\* reaches the registry before it has finished, and the value, once there,
\* is never made again: what a call registered stays until an unregister.
C13_InitializedOnce ==
    /\ [](once.runs <= 1)
    /\ [](\A t \in Threads :
             th[t].pc = "call" => (once.state = "complete" /\ once.runs = 1))
    /\ [][ once.state = "complete" =>
              /\ once' = once
              /\ cbi(core') # cbi(core) => last'.op \in {"register", "unregister"}
         ]_vars

\* every thread made its first call before the initializer had run, and all
\* of them hold the one registry, to which no call has been made yet
C13_Witness ==
    /\ once = [state |-> "complete", runs |-> 1]
    /\ last.op = "new"
    /\ \A t \in Threads : th[t].pc = "call"
    /\ \E t \in Threads : th[t].op = "register"
    /\ \E t \in Threads : th[t].op = "gather"

-----------------------------------------------------------------------------
(* FairSpec: the threads of ConcSpec under fair scheduling.  A thread that is inside a     *)
(* call and can take its next step without interruption takes it; no thread *)
(* has to make a call.  Taking the lock is a step like the others: a thread *)
(* spinning on a lock that is free from some instant on gets it, one that   *)
(* finds the lock free only now and then may find it taken at each try.     *)

\* The steps of thread t within a call.
Step(t) ==
    \/ LockWrite(t)
    \/ RegisterDescs(t)
    \/ RegisterInsert(t)
    \/ UnregisterCollector(t)
    \/ UnlockWrite(t)
    \/ \E order \in Orders(DOMAIN cbi(core)) : LockRead(t, order)
    \/ GatherNext(t)
    \/ GatherSort(t)
    \/ UnlockRead(t)

\* The collector the threads register and unregister.
FairCollector == Collector(<<D1>>)

FairNext ==
    \E t \in Threads :
        \/ CallRegister(t, FairCollector)
        \/ CallUnregister(t, FairCollector)
        \/ CallGather(t)
        \/ Step(t)

FairSpec == Init /\ [][FairNext]_vars /\ \A t \in Threads : WF_vars(Step(t))

\* Thread t is in register or unregister and waits for the write lock.
WaitsWrite(t) == th[t].pc \in {"write_register", "write_unregister"}

\* C14 (as stated): under fair scheduling readers never suspend a writer
\* indefinitely: a register or unregister call does not wait for the write
\* lock forever while the other threads make no call but gather.
C14_ReadersNeverSuspendWriter ==
    \A t \in Threads :
        []<>( WaitsWrite(t) =>
                \E u \in Threads \ {t} : WaitsWrite(u) \/ InWrite(u) )

\* C14 (amended): under fair scheduling a register or unregister call that
\* has the write lock returns, and one that waits for it does not wait
\* forever unless other threads are inside the lock again and again.
C14_WriterReturnsUnlessLockKeptBusy ==
    \A t \in Threads :
        /\ InWrite(t) ~> ~Pending(t)
        /\ []<>( WaitsWrite(t) =>
                    \E u \in Threads \ {t} : InRead(u) \/ InWrite(u) )

\* a register waits for the write lock while a gather is inside it
C14_Witness ==
    \E t, u \in Threads :
        /\ th[t].pc = "write_register"
        /\ InRead(u)
        /\ th[u].i = 2

-----------------------------------------------------------------------------
(* The mode in which gather takes the lock.                                 *)

\* C15: gather takes the lock in its shared mode: a gather that waits for
\* the lock can take it exactly when no thread is inside register or
\* unregister, whatever number of gathers is inside, and the lock counts
\* the gathers that are inside.
C15_GatherSharesLock ==
    /\ \A t \in Threads :
          th[t].pc = "read_gather" =>
              ( (\E order \in Orders(DOMAIN cbi(core)) : ENABLED LockRead(t, order))
                <=> ~\E u \in Threads : InWrite(u) )
    /\ lock.readers = Cardinality({ t \in Threads : InRead(t) })
    /\ lock.readers > 0 => ~lock.writer

\* two gathers are inside the lock at the same time, both still collecting
C15_Witness ==
    \E t, u \in Threads :
        /\ t # u
        /\ th[t].pc = "gather_collect"
        /\ th[u].pc = "gather_collect"
        /\ lock.readers = 2

-----------------------------------------------------------------------------
(* The collector id that unregister computes.                               *)

\* C16: unregister of a collector that is registered computes the id that
\* register computed for it, so it returns Ok and removes the collector,
\* also when the sum of the collector's descriptor ids passes the largest
\* u64.
C16_UnregisterFindsRegistered ==
    [][ (last'.op = "unregister" /\ last'.c \in Registered(core)) =>
          /\ last'.res = "Ok"
          /\ last'.c \notin Registered(core') ]_vars

-----------------------------------------------------------------------------
(* The order gather gives to metrics with equal labels.                     *)

\* The metrics have as many labels, with the same values in the same places.
SameLabelValues(m1, m2) ==
    /\ Len(m1.label) = Len(m2.label)
    /\ \A i \in 1..Len(m1.label) : m1.label[i].value = m2.label[i].value

-----------------------------------------------------------------------------
(* The result of gather and the order in which the collectors are visited.  *)

\* C18: gather returns the same list - the families, their order, and the
\* order of the metrics in each - in whatever order colloctors_by_id yields
\* the collectors, also for families merged from several collectors and
\* for metrics with equal labels and timestamps.
C18_GatherIgnoresVisitOrder ==
    last.op = "gather" =>
        \A order \in Orders(DOMAIN cbi(core)) : Gather(core, order) = last.out

-----------------------------------------------------------------------------
(* The families gather merges.                                              *)

\* The places of metric m in the families named name that the registered
\* collectors of core k return on collect(): collector, family, metric.
CollectedPlaces(k, name, m) ==
    { p \in UNION { UNION { { <<x, f, i>> :
                                i \in 1..Len(Collect(cbi(k)[x])[f].metric) } :
                            f \in 1..Len(Collect(cbi(k)[x])) } :
                    x \in DOMAIN cbi(k) } :
        /\ Collect(cbi(k)[p[1]])[p[2]].name = name
        /\ Collect(cbi(k)[p[1]])[p[2]].metric[p[3]] = m }

\* The metrics that the registered collectors return in families named name.
CollectedMetrics(k, name) ==
    UNION { UNION { { mf.metric[i] : i \in 1..Len(mf.metric) } :
                    mf \in { Collect(cbi(k)[x])[f] :
                                f \in { g \in 1..Len(Collect(cbi(k)[x])) :
                                           Collect(cbi(k)[x])[g].name = name } } } :
            x \in DOMAIN cbi(k) }

\* The names of the families that the registered collectors return.
CollectedNames(k) ==
    UNION { { Collect(cbi(k)[x])[f].name : f \in 1..Len(Collect(cbi(k)[x])) } :
            x \in DOMAIN cbi(k) }

\* C19: gather returns one family for every name that a registered
\* collector returns and no other; every metric is in it as many times as
\* the collectors return it in families of that name; with no collector
\* registered gather returns the empty list.
C19_GatherMergesByName ==
    last.op = "gather" =>
        /\ { last.out[f].name : f \in 1..Len(last.out) } = CollectedNames(core)
        /\ \A f, g \in 1..Len(last.out) :
              last.out[f].name = last.out[g].name => f = g
        /\ \A f \in 1..Len(last.out) :
              LET ms == last.out[f].metric IN
              \A m \in { ms[i] : i \in 1..Len(ms) }
                        \cup CollectedMetrics(core, last.out[f].name) :
                  Cardinality({ i \in 1..Len(ms) : ms[i] = m })
                      = Cardinality(CollectedPlaces(core, last.out[f].name, m))
        /\ cbi(core) = EmptyMap => last.out = << >>

\* gather returns a family merged from two collectors beside the family of
\* a third
C19_Witness ==
    /\ last.op = "gather"
    /\ Len(last.out) = 2
    /\ Cardinality(DOMAIN cbi(core)) = 3
    /\ \E f \in 1..Len(last.out) :
          /\ Len(last.out[f].metric) = 5
          /\ \E x, y \in DOMAIN cbi(core) :
                /\ x # y
                /\ cbi(core)[x].descs # << >>
                /\ cbi(core)[y].descs # << >>
                /\ Collect(cbi(core)[x])[1].name = last.out[f].name
                /\ Collect(cbi(core)[y])[1].name = last.out[f].name

-----------------------------------------------------------------------------
(* The three collections of the core, taken together.                       *)

\* C20: after any sequence of register and unregister calls the registered
\* collectors have pairwise disjoint sets of descriptor ids, all of them in
\* desc_ids; every key of colloctors_by_id is the wrapping sum of the
\* distinct descriptor ids of its collector; and dim_hashes_by_name holds,
\* for the name of every descriptor of a registered collector, that
\* descriptor's dim_hash.
C20_CoreConsistent ==
    /\ \A x, y \in DOMAIN cbi(core) :
          x # y => DescIds(cbi(core)[x]) \cap DescIds(cbi(core)[y]) = {}
    /\ \A x \in DOMAIN cbi(core) :
          /\ DescIds(cbi(core)[x]) \subseteq core.desc_ids
          /\ x = SumOf(DescIds(cbi(core)[x])) % IdMod
          /\ \A i \in 1..Len(cbi(core)[x].descs) :
                LET d == cbi(core)[x].descs[i] IN
                /\ d.fq_name \in DOMAIN core.dim_hashes_by_name
                /\ core.dim_hashes_by_name[d.fq_name] = d.dim_hash

\* a register has failed, after an unregister, on a registry that holds two
\* collectors, one under a key that is a sum with wrap-around
C20_Witness ==
    /\ last.op = "register"
    /\ last.res \notin {"Ok", "AlreadyReg"}
    /\ Cardinality(DOMAIN cbi(core)) = 2
    /\ \E x \in DOMAIN cbi(core) : SumOf(DescIds(cbi(core)[x])) >= IdMod
    /\ core.desc_ids # UNION { DescIds(r) : r \in Registered(core) }

-----------------------------------------------------------------------------
(* The life of an entry of dim_hashes_by_name.                              *)

\* C21: no call of register, unregister or gather, whether it succeeds or
\* fails, removes an entry of dim_hashes_by_name or changes its value: the
\* hash first recorded for a name stays.
C21_DimHashFirstWriterWins ==
    [][ \A n \in DOMAIN core.dim_hashes_by_name :
            /\ n \in DOMAIN core'.dim_hashes_by_name
            /\ core'.dim_hashes_by_name[n] = core.dim_hashes_by_name[n] ]_vars

\* a register with another dim hash for a recorded name has failed, the name
\* being that of no registered collector: the entry has outlived the
\* unregister of its writer and the later register
C21_Witness ==
    /\ last.op = "register"
    /\ last.res = "MsgInconsistentDesc"
    /\ Len(last.c.descs) = 1
    /\ last.c.descs[1].fq_name \in DOMAIN core.dim_hashes_by_name
    /\ core.dim_hashes_by_name[last.c.descs[1].fq_name] # last.c.descs[1].dim_hash
    /\ \A r \in Registered(core) :
          \A i \in 1..Len(r.descs) : r.descs[i].fq_name # last.c.descs[1].fq_name
    /\ last.c.descs[1].id \notin core.desc_ids
    /\ \E w \in Collectors :
          /\ Len(w.descs) = 1
          /\ DescIds(w) \subseteq accepted
          /\ w.descs[1].fq_name = last.c.descs[1].fq_name
          /\ w.descs[1].dim_hash = core.dim_hashes_by_name[w.descs[1].fq_name]

====
